---- MODULE Spec2Model ----
(***************************************************************************)
(* Forum API (src/main.py): threads and posts kept in two collections of   *)
(* a document store, reached through five request handlers.                *)
(*                                                                         *)
(* Strings that are parsed or matched character by character (identifiers, *)
(* titles, search fragments) are sequences of one-character strings.       *)
(* An optional value is <<>> (None / absent) or <<v>> (present).           *)
(***************************************************************************)
EXTENDS Integers, Sequences, FiniteSets, TLC

\* ------------------------------------------------------------------ bounds

\* documents the thread collection may hold
MaxThreads == 2
\* documents the post collection may hold
MaxPosts == 2
\* largest explicit limit query parameter tried
MaxLimit == 1
\* hexadecimal digits of an identifier string (24 in the store's format)
OidHexLen == 2

\* in-flight POST /threads/{thread_id}/posts requests
Requests == {"r1", "r2"}

\* ------------------------------------------------------- program constants

\* list_threads(limit: int = 50)
DefaultThreadLimit == 50
\* list_posts(limit: int = 100)
DefaultPostLimit == 100

\* ----------------------------------------------------------------- helpers

Min(a, b) == IF a < b THEN a ELSE b

Take(s, n) == SubSeq(s, 1, Min(n, Len(s)))

\* ------------------------------------------------- identifiers (bson.ObjectId)

HexLower == <<"0","1","2","3","4","5","6","7","8","9","a","b","c","d","e","f">>
HexUpper == <<"0","1","2","3","4","5","6","7","8","9","A","B","C","D","E","F">>

IsHex(ch) == \E n \in 1..16 : HexLower[n] = ch \/ HexUpper[n] = ch

HexVal(ch) == (CHOOSE n \in 1..16 : HexLower[n] = ch \/ HexUpper[n] = ch) - 1

\* ObjectId(s) succeeds: s has the identifier length and only hex digits,
\* of either letter case.  Otherwise ObjectId(s) raises InvalidId.
ObjectIdValid(s) == Len(s) = OidHexLen /\ \A i \in 1..Len(s) : IsHex(s[i])

\* ObjectId(s): the native identifier, a sequence of 4-bit values
ObjectId(s) == [i \in 1..Len(s) |-> HexVal(s[i])]

\* str(oid): lower-case hexadecimal
StrOid(oid) == [i \in 1..Len(oid) |-> HexLower[oid[i] + 1]]

\* the n-th identifier the store assigns: identifiers are unique over both
\* collections, threads take the first MaxThreads of them
NewOid(n) == [i \in 1..OidHexLen |-> IF i = 1 THEN 10 + (n % 6) ELSE n % 16]

\* the same identifier string with its hex letters in upper case
UpperHex(s) == [i \in 1..Len(s) |-> HexUpper[HexVal(s[i]) + 1]]

\* ------------------------------------------------------------ request inputs

ThreadPayload(title, category, tags) ==
    [title |-> title, author |-> "alice", content |-> "hi",
     category |-> category, tags |-> tags]

\* valid Thread payloads: the optional fields present, and absent
ThreadPayloads ==
    { ThreadPayload(<<"H","i">>, <<"general">>, << <<"x","y">> >>),
      ThreadPayload(<<"a","b">>, <<>>, <<>>) }

\* identifier strings a client may put in a path: every identifier a thread
\* can get, in lower and in upper case, an identifier only a post can get,
\* and two malformed strings (wrong length, wrong characters)
Malformed == { <<"a">>, [i \in 1..OidHexLen |-> "z"] }
ThreadIds == { StrOid(NewOid(n)) : n \in 1..MaxThreads }
PathIds ==
    ThreadIds \cup { UpperHex(s) : s \in ThreadIds }
        \cup { StrOid(NewOid(MaxThreads + 1)) } \cup Malformed

\* thread_id values a Post body may carry
BodyThreadIds == { StrOid(NewOid(1)) }

PostPayloads ==
    [thread_id : BodyThreadIds, author : {"bob"}, content : {"welcome"}]

QInputs == { <<>>, << <<>> >>, << <<"I">> >>, << <<".">> >> }
CategoryInputs == { <<>>, <<"">>, <<"general">> }
LimitInputs == { <<>> } \cup { <<n>> : n \in (-1)..MaxLimit }

\* --------------------------------------------------------------------- state

VARIABLES
    db,        \* TRUE: a connection handle is held; FALSE: db is None
    threads,   \* the "thread" collection, in insertion order
    posts,     \* the "post" collection, in insertion order
    pc,        \* per in-flight create_post: "idle" or "insert"
    req,       \* per in-flight create_post: its path identifier and payload
    receipts,  \* the {id} responses of create_thread with their payloads
    last       \* the response being sent: the request completed last and its
               \* answer; op "none" once it has been sent

vars == <<db, threads, posts, pc, req, receipts, last>>

NoReq == [thread_id |-> <<>>, payload |-> <<>>]

Response(op, request, status, kind, body, trips) ==
    [op |-> op, req |-> request, status |-> status, kind |-> kind,
     body |-> body, trips |-> trips]

NoResponse == Response("none", <<>>, 0, "", <<>>, 0)

\* One response is observed at a time: a handler completes a step only after
\* the previous response has been sent.  In-flight create_post requests stay
\* in flight meanwhile, so every interleaving of store round trips remains.
Sent == last.op = "none"

Init ==
    /\ db \in BOOLEAN
    /\ threads = <<>>
    /\ posts = <<>>
    /\ pc = [r \in Requests |-> "idle"]
    /\ req = [r \in Requests |-> NoReq]
    /\ receipts = {}
    /\ last = NoResponse

\* ------------------------------------------------------------ text matching

UpperLetters == <<"A","B","H","I">>
LowerLetters == <<"a","b","h","i">>

\* case folding of the "i" option
ToLower(ch) ==
    IF \E k \in 1..Len(UpperLetters) : UpperLetters[k] = ch
    THEN LowerLetters[CHOOSE k \in 1..Len(UpperLetters) : UpperLetters[k] = ch]
    ELSE ch

\* one pattern character against one text character: "." is the regular
\* expression wildcard, every other character of the alphabet used here
\* stands for itself
RegexCharMatch(p, ch) == p = "." \/ ToLower(p) = ToLower(ch)

\* {"$regex": pattern, "$options": "i"}: the pattern matches somewhere in text
RegexSearch(pattern, text) ==
    \E start \in 0..(Len(text) - Len(pattern)) :
        \A k \in 1..Len(pattern) : RegexCharMatch(pattern[k], text[start + k])

\* ------------------------------------------- the store gateway (database.py)

\* create_document(collection_name, data): the collection after the insert
\* and the new identifier as a string; StoreUnavailable without a handle
CreateDocument(collection_name, data) ==
    LET coll == IF collection_name = "thread" THEN threads ELSE posts
        oid == IF collection_name = "thread" THEN NewOid(Len(threads) + 1)
               ELSE NewOid(MaxThreads + Len(posts) + 1)
    IN  IF ~db
        THEN [ok |-> FALSE, kind |-> "StoreUnavailable", coll |-> coll, id |-> <<>>]
        ELSE [ok |-> TRUE, kind |-> "", coll |-> Append(coll, [_id |-> oid] @@ data),
              id |-> StrOid(oid)]

\* db[collection].find_one({"_id": oid}): <<doc>> or <<>> (None)
FindOne(coll, oid) ==
    LET hits == SelectSeq(coll, LAMBDA d : d._id = oid)
    IN  IF hits = <<>> THEN <<>> ELSE <<hits[1]>>

\* ------------------------------------------------------- presentation mapper

\* to_thread_out with the tags field left out of the output
to_thread_out_NoTags(doc) ==
    [id |-> StrOid(doc._id), title |-> doc.title, author |-> doc.author,
     content |-> doc.content, category |-> doc.category, tags |-> <<>>]

to_thread_out(doc) ==
    [id |-> StrOid(doc._id), title |-> doc.title, author |-> doc.author,
     content |-> doc.content, category |-> doc.category, tags |-> doc.tags]

\* to_post_out with thread_id read from the document's own identifier
to_post_out_OwnId(doc) ==
    [id |-> StrOid(doc._id), thread_id |-> StrOid(doc._id), author |-> doc.author,
     content |-> doc.content]

to_post_out(doc) ==
    [id |-> StrOid(doc._id), thread_id |-> doc.thread_id, author |-> doc.author,
     content |-> doc.content]

\* ------------------------------------------------------------------ handlers

\* Python truthiness of an Optional[str]: None and "" are falsy
TruthyText(opt) == opt # <<>> /\ opt[1] # <<>>
TruthyStr(opt) == opt # <<>> /\ opt[1] # ""

\* filter_dict of list_threads: one optional clause per field
ThreadFilter(q, category) ==
    [title |-> IF TruthyText(q) THEN q ELSE <<>>,
     category |-> IF TruthyStr(category) THEN category ELSE <<>>]

\* the store's evaluation of filter_dict on one thread document
MatchThread(doc, filter_dict) ==
    /\ filter_dict.title = <<>> \/ RegexSearch(filter_dict.title[1], doc.title)
    /\ filter_dict.category = <<>> \/ doc.category = filter_dict.category

\* filter_dict of list_posts: {"thread_id": thread_id}
PostFilter(thread_id) == [thread_id |-> thread_id]

\* the store's evaluation of it: equality with the stored string
MatchPost(doc, filter_dict) == doc.thread_id = filter_dict.thread_id

\* get_documents(collection_name, filter_dict, limit): up to limit matching
\* documents in insertion order.  A non-positive limit is clamped to 1
\* (clamp) or rejected with InvalidArgument (~clamp): the gateway may do
\* either, so both are outcomes of every such call.
GetDocuments(collection_name, filter_dict, limit, clamp) ==
    LET hits == IF collection_name = "thread"
                THEN SelectSeq(threads, LAMBDA d : MatchThread(d, filter_dict))
                ELSE SelectSeq(posts, LAMBDA d : MatchPost(d, filter_dict))
    IN
    IF ~db
    THEN [ok |-> FALSE, kind |-> "StoreUnavailable", docs |-> <<>>, trips |-> 0]
    ELSE IF limit <= 0 /\ ~clamp
    THEN [ok |-> FALSE, kind |-> "InvalidArgument", docs |-> <<>>, trips |-> 0]
    ELSE [ok |-> TRUE, kind |-> "",
          docs |-> Take(hits, IF limit <= 0 THEN 1 ELSE limit),
          trips |-> 1]

\* list_threads not passing its limit on to get_documents
ListThreadsLimit_Ignored(limit) == DefaultThreadLimit

ListThreadsLimit(limit) == IF limit = <<>> THEN DefaultThreadLimit ELSE limit[1]

ListPostsLimit(limit) == IF limit = <<>> THEN DefaultPostLimit ELSE limit[1]

\* an exception that leaves a handler uncaught is answered with HTTP 500
ListThreadsResponse(q, category, limit, clamp) ==
    LET filter_dict == ThreadFilter(q, category)
        got == GetDocuments("thread", filter_dict, ListThreadsLimit(limit), clamp)
        request == [q |-> q, category |-> category, limit |-> limit]
    IN  IF got.ok
        THEN Response("list_threads", request, 200, "",
                      [i \in 1..Len(got.docs) |-> to_thread_out(got.docs[i])], got.trips)
        ELSE Response("list_threads", request, 500, got.kind, <<>>, got.trips)

ListPostsResponse(thread_id, limit, clamp) ==
    LET got == GetDocuments("post", PostFilter(thread_id), ListPostsLimit(limit),
                            clamp)
        request == [thread_id |-> thread_id, limit |-> limit]
    IN  IF got.ok
        THEN Response("list_posts", request, 200, "",
                      [i \in 1..Len(got.docs) |-> to_post_out(got.docs[i])], got.trips)
        ELSE Response("list_posts", request, 500, got.kind, <<>>, got.trips)

\* get_thread converting the identifier before it looks at db
GetThreadResponse_DecodeFirst(thread_id) ==
    LET request == [thread_id |-> thread_id]
    IN  IF ~ObjectIdValid(thread_id)
        THEN Response("get_thread", request, 500, "InvalidId", <<>>, 0)
        ELSE IF ~db
        THEN Response("get_thread", request, 500, "StoreUnavailable", <<>>, 0)
        ELSE LET doc == FindOne(threads, ObjectId(thread_id))
             IN  IF doc = <<>>
                 THEN Response("get_thread", request, 404, "NotFound", <<>>, 1)
                 ELSE Response("get_thread", request, 200, "", to_thread_out(doc[1]), 1)

GetThreadResponse(thread_id) ==
    LET request == [thread_id |-> thread_id]
    IN  IF ~db
        THEN Response("get_thread", request, 500, "StoreUnavailable", <<>>, 0)
        ELSE IF ~ObjectIdValid(thread_id)
        THEN Response("get_thread", request, 500, "InvalidId", <<>>, 0)
        ELSE LET doc == FindOne(threads, ObjectId(thread_id))
             IN  IF doc = <<>>
                 THEN Response("get_thread", request, 404, "NotFound", <<>>, 1)
                 ELSE Response("get_thread", request, 200, "", to_thread_out(doc[1]), 1)

\* create_post without the parent lookup
ParentCheck_NoLookup(thread_id) ==
    IF ~db
    THEN [status |-> 500, kind |-> "StoreUnavailable", trips |-> 0]
    ELSE IF ~ObjectIdValid(thread_id)
    THEN [status |-> 500, kind |-> "InvalidId", trips |-> 0]
    ELSE [status |-> 200, kind |-> "", trips |-> 0]

\* create_post up to the insert: the outcome of the availability check, the
\* identifier conversion and the parent lookup
ParentCheck(thread_id) ==
    IF ~db
    THEN [status |-> 500, kind |-> "StoreUnavailable", trips |-> 0]
    ELSE IF ~ObjectIdValid(thread_id)
    THEN [status |-> 500, kind |-> "InvalidId", trips |-> 0]
    ELSE IF FindOne(threads, ObjectId(thread_id)) = <<>>
    THEN [status |-> 404, kind |-> "ParentNotFound", trips |-> 1]
    ELSE [status |-> 200, kind |-> "", trips |-> 1]

\* create_post leaving the body's thread_id in place
PostData_KeepBody(thread_id, payload) == payload

\* post_data = payload.model_dump(); post_data["thread_id"] = thread_id
PostData(thread_id, payload) == [payload EXCEPT !.thread_id = thread_id]

\* POST /threads
CreateThread(payload) ==
    LET made == CreateDocument("thread", payload)
    IN  /\ Sent
        /\ db => Len(threads) < MaxThreads
        /\ threads' = made.coll
        /\ IF made.ok
           THEN /\ last' = Response("create_thread", payload, 200, "",
                                    [id |-> made.id], 1)
                /\ receipts' = receipts \cup {[id |-> made.id, payload |-> payload]}
           ELSE /\ last' = Response("create_thread", payload, 500, made.kind, <<>>, 0)
                /\ UNCHANGED receipts
        /\ UNCHANGED <<db, posts, pc, req>>

\* GET /threads
ListThreads(q, category, limit, clamp) ==
    /\ Sent
    /\ last' = ListThreadsResponse(q, category, limit, clamp)
    /\ UNCHANGED <<db, threads, posts, pc, req, receipts>>

\* GET /threads/{thread_id}
GetThread(thread_id) ==
    /\ Sent
    /\ last' = GetThreadResponse(thread_id)
    /\ UNCHANGED <<db, threads, posts, pc, req, receipts>>

\* POST /threads/{thread_id}/posts, first store round trip: the parent lookup
CreatePostCheck(r, thread_id, payload) ==
    LET chk == ParentCheck(thread_id)
        request == [thread_id |-> thread_id, payload |-> payload]
    IN  /\ Sent
        /\ pc[r] = "idle"
        /\ IF chk.status = 200
           THEN /\ Len(posts) + Cardinality({x \in Requests : pc[x] = "insert"}) < MaxPosts
                /\ pc' = [pc EXCEPT ![r] = "insert"]
                /\ req' = [req EXCEPT ![r] = request]
                /\ UNCHANGED last
           ELSE /\ last' = Response("create_post", request, chk.status, chk.kind,
                                    <<>>, chk.trips)
                /\ UNCHANGED <<pc, req>>
        /\ UNCHANGED <<db, threads, posts, receipts>>

\* POST /threads/{thread_id}/posts, second store round trip: the insert
CreatePostInsert(r) ==
    LET made == CreateDocument("post", PostData(req[r].thread_id, req[r].payload))
    IN  /\ Sent
        /\ pc[r] = "insert"
        /\ posts' = made.coll
        /\ last' = IF made.ok
                   THEN Response("create_post", req[r], 200, "", [id |-> made.id], 2)
                   ELSE Response("create_post", req[r], 500, made.kind, <<>>, 1)
        /\ pc' = [pc EXCEPT ![r] = "idle"]
        /\ req' = [req EXCEPT ![r] = NoReq]
        /\ UNCHANGED <<db, threads, receipts>>

\* GET /threads/{thread_id}/posts
ListPosts(thread_id, limit, clamp) ==
    /\ Sent
    /\ last' = ListPostsResponse(thread_id, limit, clamp)
    /\ UNCHANGED <<db, threads, posts, pc, req, receipts>>

\* the response leaves the process
SendResponse ==
    /\ ~Sent
    /\ last' = NoResponse
    /\ UNCHANGED <<db, threads, posts, pc, req, receipts>>

Next ==
    \/ \E payload \in ThreadPayloads : CreateThread(payload)
    \/ \E q \in QInputs, category \in CategoryInputs, limit \in LimitInputs,
          clamp \in BOOLEAN : ListThreads(q, category, limit, clamp)
    \/ \E thread_id \in PathIds : GetThread(thread_id)
    \/ \E r \in Requests, thread_id \in PathIds, payload \in PostPayloads :
          CreatePostCheck(r, thread_id, payload)
    \/ \E r \in Requests : CreatePostInsert(r)
    \/ \E thread_id \in PathIds, limit \in LimitInputs, clamp \in BOOLEAN :
          ListPosts(thread_id, limit, clamp)
    \/ SendResponse

Spec == Init /\ [][Next]_vars

\* -------------------------------------------------------------------- claims

\* the identifier string s decodes to the native identifier of a stored thread
DecodesToExisting(s) ==
    ObjectIdValid(s) /\ \E i \in 1..Len(threads) : threads[i]._id = ObjectId(s)

\* the limit a listing request asks for: the parameter, or the handler's default
AskedLimit(op, limit) ==
    IF limit # <<>> THEN limit[1]
    ELSE IF op = "list_threads" THEN DefaultThreadLimit ELSE DefaultPostLimit

\* text contains frag as a literal substring, letter case ignored
ContainsLiteral(text, frag) ==
    \E start \in 0..(Len(text) - Len(frag)) :
        \A k \in 1..Len(frag) : ToLower(frag[k]) = ToLower(text[start + k])

\* C1: with the store available, a create-post request whose path identifier
\* does not decode to a stored thread (malformed, or well-formed and unknown)
\* is answered 404 ParentNotFound and leaves the post collection unchanged.
C1_MissingParentIs404 ==
    [][ (Sent /\ last'.op = "create_post" /\ db
            /\ ~DecodesToExisting(last'.req.thread_id))
        => (last'.status = 404 /\ last'.kind = "ParentNotFound" /\ posts' = posts) ]_vars

\* C2: in every reachable state every stored post's thread_id identifies
\* (decodes to the native identifier of) a stored thread.
C2_PostsReferenceThreads ==
    \A i \in 1..Len(posts) : DecodesToExisting(posts[i].thread_id)

\* a post is stored, a second thread has been created since, and another
\* create-post is between its lookup and its insert
C2_Witness ==
    /\ Len(posts) >= 1
    /\ Len(threads) = 2
    /\ \E r \in Requests : pc[r] = "insert"

\* C3: the post a successful create-post request stored carries the path
\* identifier as its thread_id, whatever thread_id the body carried.
C3_PathWins ==
    (last.op = "create_post" /\ last.status = 200)
    => \E i \in 1..Len(posts) :
          /\ StrOid(posts[i]._id) = last.body.id
          /\ posts[i].thread_id = last.req.thread_id

\* a create-post succeeded under one thread's identifier while its body named
\* a different stored thread
C3_Witness ==
    /\ last.op = "create_post"
    /\ last.status = 200
    /\ DecodesToExisting(last.req.payload.thread_id)
    /\ ObjectId(last.req.payload.thread_id) # ObjectId(last.req.thread_id)

\* C4: GET /threads/{thread_id} answers 500 StoreUnavailable without a
\* connection handle; with one, 404 when the identifier is malformed or names
\* no stored thread, and otherwise the thread with id equal to the identifier
\* requested.
C4_GetThreadContract ==
    last.op = "get_thread"
    => IF ~db THEN last.status = 500 /\ last.kind = "StoreUnavailable"
       ELSE IF DecodesToExisting(last.req.thread_id)
       THEN last.status = 200 /\ last.body.id = last.req.thread_id
       ELSE last.status = 404

\* C5: looking up an identifier that create-thread returned answers the thread
\* with the title, author, content, category and tags of the payload it was
\* created from (absent optional fields null), however many operations later.
C5_CreateThenGet ==
    \A rc \in receipts :
        (last.op = "get_thread" /\ last.req.thread_id = rc.id)
        => /\ last.status = 200
           /\ last.body.title = rc.payload.title
           /\ last.body.author = rc.payload.author
           /\ last.body.content = rc.payload.content
           /\ last.body.category = rc.payload.category
           /\ last.body.tags = rc.payload.tags

\* a thread created with tags is looked up after a second thread and a post
\* have been created
C5_Witness ==
    /\ last.op = "get_thread"
    /\ Len(threads) = 2
    /\ Len(posts) >= 1
    /\ \E rc \in receipts :
          /\ rc.id = last.req.thread_id
          /\ rc.payload.tags # <<>>
          /\ rc.id = StrOid(threads[1]._id)

\* C6: a successful thread listing is, in insertion order and truncated to the
\* limit, exactly the stored threads whose title contains q as a literal
\* substring (letter case ignored) and whose category equals the given one;
\* an absent or empty input contributes no clause.
C6_ListThreadsLiteral ==
    (last.op = "list_threads" /\ last.status = 200)
    => LET q == last.req.q
           category == last.req.category
           n == AskedLimit("list_threads", last.req.limit)
           hits == SelectSeq(threads, LAMBDA d :
                      /\ ~TruthyText(q) \/ ContainsLiteral(d.title, q[1])
                      /\ ~TruthyStr(category) \/ d.category = category)
           m == Min(IF n <= 0 THEN 1 ELSE n, Len(hits))
       IN  last.body = [i \in 1..m |-> to_thread_out(hits[i])]

\* C7: a listing returns at most limit documents for a positive limit; for a
\* non-positive limit it is rejected with InvalidArgument or returns at most
\* one document.
C7_LimitRespected ==
    (last.op \in {"list_threads", "list_posts"} /\ db)
    => LET n == AskedLimit(last.op, last.req.limit)
       IN  IF n > 0
           THEN last.status = 200 /\ Len(last.body) <= n
           ELSE \/ last.kind = "InvalidArgument"
                \/ last.status = 200 /\ Len(last.body) <= 1

\* two threads are stored and a listing with limit 1 returned one of them
C7_Witness ==
    /\ last.op = "list_threads"
    /\ last.req.limit = <<1>>
    /\ last.req.q = <<>>
    /\ last.req.category = <<>>
    /\ Len(threads) = 2
    /\ Len(last.body) = 1

\* C8: with the store available, a post listing that is not rejected for its
\* limit answers exactly the stored posts whose thread_id equals the path
\* identifier, in insertion order up to the limit, with id and thread_id as
\* strings (the empty sequence when there are none), and changes neither
\* collection.
C8_ListPostsExact ==
    [][ (Sent /\ last'.op = "list_posts" /\ db /\ last'.kind # "InvalidArgument")
        => LET n == AskedLimit("list_posts", last'.req.limit)
               hits == SelectSeq(posts, LAMBDA d : d.thread_id = last'.req.thread_id)
               m == Min(IF n <= 0 THEN 1 ELSE n, Len(hits))
           IN  /\ last'.status = 200
               /\ last'.body = [i \in 1..m |->
                                  [id |-> StrOid(hits[i]._id),
                                   thread_id |-> hits[i].thread_id,
                                   author |-> hits[i].author,
                                   content |-> hits[i].content]]
               /\ threads' = threads
               /\ posts' = posts ]_vars

\* two posts are stored under different thread_id strings and the listing
\* for one of them returned just that one
C8_Witness ==
    /\ last.op = "list_posts"
    /\ last.status = 200
    /\ Len(posts) = 2
    /\ Len(last.body) = 1
    /\ last.req.limit = <<>>

\* C9: without a connection handle every store-touching request is answered
\* 500 StoreUnavailable after no store round trip, and no document exists.
C9_UnavailableFailsFast ==
    (~db /\ last.op # "none")
    => /\ last.status = 500
       /\ last.kind = "StoreUnavailable"
       /\ last.trips = 0
       /\ threads = <<>>
       /\ posts = <<>>
       /\ \A r \in Requests : pc[r] = "idle"

\* without a handle, a thread lookup with a malformed identifier was answered
C9_Witness ==
    /\ ~db
    /\ last.op = "get_thread"
    /\ ~ObjectIdValid(last.req.thread_id)

\* C10: every stored post is returned by the post listing for the identifier
\* string create-thread returned for its parent thread.
C10_ListedUnderCanonicalId ==
    \A i \in 1..Len(posts) : \A rc \in receipts :
        ObjectId(posts[i].thread_id) = ObjectId(rc.id)
        => LET listed == ListPostsResponse(rc.id, <<>>, TRUE).body
           IN  \E k \in 1..Len(listed) : listed[k].id = StrOid(posts[i]._id)

====
